---- MODULE Spec2Model ----
(***************************************************************************)
(* The two command-line predictors of mqtt_marine/satelite:                *)
(*   marine_model/predict.py      (CSV window -> wave/wind hazard labels)  *)
(*   rouge_wave_model/predict.py  (NPZ displacement trace -> rogue wave)   *)
(* Each run is one pass of main(); a step of the model is one stage of     *)
(* main() up to the next point at which the run can end.                   *)
(*                                                                         *)
(* Numbers.  Python floats are modelled by exact fixed-point integers:     *)
(*   wvht_pred  in centimetres,       wvht_ft in 1e-7 ft                   *)
(*   wspd_pred  in centimetres/second, wspd_kt in 1e-7 kt                  *)
(*   dpd_pred   in tenths of a second                                      *)
(* No sampled input lands within rounding distance of a threshold after    *)
(* the unit conversion, so the exact products compare as the doubles do.   *)
(* The network and the scaler are opaque artifacts: their results are      *)
(* drawn from bounded sets of finite values.                               *)
(***************************************************************************)
EXTENDS Integers, Sequences, FiniteSets, TLC

VARIABLES
    prog,          \* which script runs: "marine" or "rogue"
    argc,          \* len(sys.argv)
    pc,            \* position in main()
    steps,         \* stages of main() that have been entered
    loaded,        \* artifacts and inputs loaded successfully
    exitCode,      \* process exit status, -1 while running
    stdout,        \* lines written to standard output
    stderrTarget,  \* what sys.stderr is bound to: "fd2" or "devnull"
    errChannel,    \* messages delivered on the process's error channel (fd 2)
    nullSink,      \* messages written to os.devnull
    failedAt,      \* stage that ended the run, "" if none
    csv,           \* the input CSV file
    df,            \* rows of the data frame after dropna().reset_index()
    last24,        \* df[features].iloc[-24:]
    wvht_pred, wspd_pred, dpd_pred,
    wvht_ft, wspd_kt,
    wave_alert, wind_alert, advice,
    npz,           \* the input NPZ container
    zdisp,         \* the selected displacement trace
    significant_wave_height,
    zdisp_norm,
    pred,          \* raw class scores of the classifier
    wave_type_str

vars == <<prog, argc, pc, steps, loaded, exitCode, stdout, stderrTarget,
          errChannel, nullSink, failedAt, csv, df, last24,
          wvht_pred, wspd_pred, dpd_pred, wvht_ft, wspd_kt,
          wave_alert, wind_alert, advice,
          npz, zdisp, significant_wave_height, zdisp_norm, pred,
          wave_type_str>>

marineData == <<csv, df, last24, wvht_pred, wspd_pred, dpd_pred, wvht_ft,
                wspd_kt, wave_alert, wind_alert, advice>>

rogueData == <<npz, zdisp, significant_wave_height, zdisp_norm, pred,
               wave_type_str>>

(***************************************************************************)
(* Bounds of the model.                                                    *)
(***************************************************************************)
MaxArgc == 3         \* len(sys.argv) ranges over 1..MaxArgc
MaxRows == 26        \* rows in the input CSV
MaxHeightIdx == 19   \* predicted wave heights 0, 25, ... cm
MaxPeriodIdx == 10   \* predicted periods 8.5, 9.0, ... s
MaxSpeedIdx == 5     \* predicted wind speeds 0, 8, ... m/s
MaxEntries == 2      \* arrays in the NPZ container
MaxSample == 1       \* displacement samples range over 0..MaxSample
MaxScore == 1        \* raw class scores range over -MaxScore..MaxScore

(***************************************************************************)
(* Program constants.                                                      *)
(***************************************************************************)
WindowLen == 24
TraceLen == 1536
FtPerM == 328084     \* 3.28084 ft per metre, in 1e-5
KtPerMs == 194384    \* 1.94384 kt per m/s, in 1e-5

FtUnit == 100 * 100000   \* one foot, in the unit of wvht_ft (cm times 1e-5)
KtUnit == 100 * 100000   \* one knot, in the unit of wspd_kt (cm/s times 1e-5)
Sec(n) == 10 * n         \* n seconds, in the unit of dpd_pred

Heights == {25 * i : i \in 0..MaxHeightIdx}
Periods == {85 + 5 * i : i \in 0..MaxPeriodIdx}
Speeds == {800 * i : i \in 0..MaxSpeedIdx}

(***************************************************************************)
(* Standard output and diagnostics.                                        *)
(***************************************************************************)
MarineUsageMsg == "Usage: python predict.py <data.csv>"
LoadFailedMsg == "Failed to load model or scaler"
TooFewRowsMsg == "data.csv must contain at least 24 rows"
ReadFailedMsg == "Failed to read/process input"
PredictionFailedMsg == "Prediction failed"
TimeFailedMsg == "Time parsing failed"
Traceback == "Traceback (most recent call last)"
RogueUsageMsg == "Usage: python predict.py <npz_path>"

MarineHeader ==
    "time,wvht(m),wvht(ft),wave_level,wspd(m/s),wspd(kt),wind_level,dpd(s),advice,station"
MarineDataLine == "<marine data line>"
RogueHeader == "norw_prob,rw_prob,wave_type_prediction"
RogueDataLine == "<rogue data line>"

\* mutant: sys.stderr left bound to the error channel
MarineStderrKept == "fd2"

\* sys.stderr = open(os.devnull, 'w')
MarineStderr == "devnull"

(***************************************************************************)
(* Labels are sequences of words, so that the substring and prefix tests   *)
(* of the advisory are tests on the text and not on a severity tag.        *)
(***************************************************************************)
WaveNormalLt5 == <<"Waves", "normal", "(<5 ft)">>
WaveCaution6to8 == <<"Small", "craft", "caution", "(6-8 ft, period <=9s)">>
WaveNormal6to8 == <<"Waves", "normal", "(6-8 ft, period >9s)">>
WaveHazard9to11 == <<"Hazardous", "seas", "(9-11 ft, period <=9s)">>
WaveCaution9to11 == <<"Small", "craft", "caution", "(9-11 ft, period 10-12s)">>
WaveNormal9to11 == <<"Waves", "normal", "(9-11 ft, period >=13s)">>
WaveHazard12to14 == <<"Hazardous", "seas", "(12-14 ft, period <=11s)">>
WaveCaution12to14 == <<"Small", "craft", "caution", "(12-14 ft, period =12s)">>
WaveNormal12to14 == <<"Waves", "normal", "(12-14 ft, period >=13s)">>
WaveHazardGe15 == <<"Hazardous", "seas", "(>=15 ft, period <=12s)">>
WaveCautionGe15 == <<"Small", "craft", "caution", "(>=15 ft, period >=13s)">>
WaveUnknown == <<"Unknown">>

WindHurricane == <<"Hurricane", "warning", "(>=64 kt)">>
WindStorm == <<"Storm", "warning", "(48-63 kt)">>
WindGale == <<"Gale", "warning", "(34-47 kt)">>
WindSmallCraft == <<"Small", "Craft", "Advisory", "(22-33 kt)">>
WindNormal == <<"Wind", "normal", "(<22 kt)">>

AdviceDanger == "DANGER: Immediate evacuation or seek safe harbor"
AdviceCaution == "CAUTION: Exercise caution"
AdviceSafe == "SAFE"

\* phrase in label
Contains(label, phrase) ==
    \E i \in 0..(Len(label) - Len(phrase)) :
        \A j \in 1..Len(phrase) : label[i + j] = phrase[j]

\* label.startswith(phrase)
StartsWith(label, phrase) ==
    /\ Len(phrase) <= Len(label)
    /\ \A j \in 1..Len(phrase) : label[j] = phrase[j]

\* wvht_ft = wvht_pred * 3.28084
ToFeet(cm) == cm * FtPerM

\* wspd_kt = wspd_pred * 1.94384
ToKnots(cms) == cms * KtPerMs

\* Wave hazard level based on table
WaveAlert(ft, dpd) ==
    IF ft <= 5 * FtUnit THEN WaveNormalLt5
    ELSE IF 6 * FtUnit <= ft /\ ft <= 8 * FtUnit THEN
        IF dpd <= Sec(9) THEN WaveCaution6to8 ELSE WaveNormal6to8
    ELSE IF 9 * FtUnit <= ft /\ ft <= 11 * FtUnit THEN
        IF dpd <= Sec(9) THEN WaveHazard9to11
        ELSE IF Sec(10) <= dpd /\ dpd <= Sec(12) THEN WaveCaution9to11
        ELSE WaveNormal9to11
    ELSE IF 12 * FtUnit <= ft /\ ft <= 14 * FtUnit THEN
        IF dpd <= Sec(11) THEN WaveHazard12to14
        ELSE IF dpd = Sec(12) THEN WaveCaution12to14
        ELSE WaveNormal12to14
    ELSE IF ft >= 15 * FtUnit THEN
        IF dpd <= Sec(12) THEN WaveHazardGe15 ELSE WaveCautionGe15
    ELSE WaveUnknown

\* mutant: the thresholds tested lowest first
WindAlertLowestFirst(kt) ==
    IF kt >= 22 * KtUnit THEN WindSmallCraft
    ELSE IF kt >= 34 * KtUnit THEN WindGale
    ELSE IF kt >= 48 * KtUnit THEN WindStorm
    ELSE IF kt >= 64 * KtUnit THEN WindHurricane
    ELSE WindNormal

\* Wind warning
WindAlert(kt) ==
    IF kt >= 64 * KtUnit THEN WindHurricane
    ELSE IF kt >= 48 * KtUnit THEN WindStorm
    ELSE IF kt >= 34 * KtUnit THEN WindGale
    ELSE IF kt >= 22 * KtUnit THEN WindSmallCraft
    ELSE WindNormal

\* mutant: the caution test made before the danger test
AdviceCautionFirst(wave, wind) ==
    IF Contains(wave, <<"Small", "craft", "caution">>)
       \/ StartsWith(wind, <<"Small", "Craft">>)
    THEN AdviceCaution
    ELSE IF \/ Contains(wave, <<"Hazardous">>)
            \/ StartsWith(wind, <<"Hurricane">>)
            \/ StartsWith(wind, <<"Storm">>)
            \/ StartsWith(wind, <<"Gale">>)
    THEN AdviceDanger
    ELSE AdviceSafe

\* mutant: a wave label outside the table treated as a caution
AdviceUnknownCaution(wave, wind) ==
    IF \/ Contains(wave, <<"Hazardous">>)
       \/ StartsWith(wind, <<"Hurricane">>)
       \/ StartsWith(wind, <<"Storm">>)
       \/ StartsWith(wind, <<"Gale">>)
    THEN AdviceDanger
    ELSE IF \/ Contains(wave, <<"Small", "craft", "caution">>)
            \/ Contains(wave, <<"Unknown">>)
            \/ StartsWith(wind, <<"Small", "Craft">>)
    THEN AdviceCaution
    ELSE AdviceSafe

\* Advice
Advice(wave, wind) ==
    IF \/ Contains(wave, <<"Hazardous">>)
       \/ StartsWith(wind, <<"Hurricane">>)
       \/ StartsWith(wind, <<"Storm">>)
       \/ StartsWith(wind, <<"Gale">>)
    THEN AdviceDanger
    ELSE IF \/ Contains(wave, <<"Small", "craft", "caution">>)
            \/ StartsWith(wind, <<"Small", "Craft">>)
    THEN AdviceCaution
    ELSE AdviceSafe

(***************************************************************************)
(* The input CSV: n data rows, row i standing at line i of the file; the   *)
(* rows in `missing` hold a missing value.  Incomplete rows are sampled at *)
(* the first, the middle and the last line of the file.                    *)
(***************************************************************************)
NoCsv == [readable |-> FALSE, hasFeatures |-> FALSE, n |-> 0, missing |-> {}]

MissingCandidates(n) == {1, (n + 1) \div 2, n} \cap (1..n)

CsvFiles ==
    {NoCsv} \cup
    UNION {{[readable |-> TRUE, hasFeatures |-> f, n |-> n, missing |-> m] :
              f \in BOOLEAN, m \in SUBSET MissingCandidates(n)} :
           n \in 0..MaxRows}

\* pd.read_csv(csv_path).dropna().reset_index(drop=True)
DropNa(c) ==
    LET keep(i) == i \notin c.missing
    IN SelectSeq([i \in 1..c.n |-> i], keep)

\* df[features].iloc[-24:]
Last24(d) == SubSeq(d, Len(d) - WindowLen + 1, Len(d))

\* mutant: len(df) <= 24 rejected
TooFewRowsInclusive(d) == Len(d) <= WindowLen

\* len(df) < 24
TooFewRows(d) == Len(d) < WindowLen

(***************************************************************************)
(* Writing to sys.stderr and ending the run.                               *)
(***************************************************************************)
WriteStderr(target, msg) ==
    IF target = "devnull"
    THEN nullSink' = Append(nullSink, msg) /\ UNCHANGED errChannel
    ELSE errChannel' = Append(errChannel, msg) /\ UNCHANGED nullSink

\* print(msg, file=sys.stderr); sys.exit(1)
Fatal(target, msg) ==
    /\ WriteStderr(target, msg)
    /\ failedAt' = pc
    /\ exitCode' = 1
    /\ pc' = "done"

Goto(next) ==
    /\ pc' = next
    /\ UNCHANGED <<exitCode, failedAt, errChannel, nullSink>>

Enter == steps' = steps \cup {pc}

(***************************************************************************)
(* marine_model/predict.py                                                 *)
(***************************************************************************)
MarineUsage ==
    /\ prog = "marine" /\ pc = "usage"
    /\ Enter
    /\ stderrTarget' = MarineStderr
    /\ IF argc # 2
       THEN Fatal(stderrTarget', MarineUsageMsg)
       ELSE Goto("load")
    /\ UNCHANGED <<prog, argc, loaded, stdout, marineData, rogueData>>

MarineLoad ==
    /\ prog = "marine" /\ pc = "load"
    /\ Enter
    /\ \E ok \in BOOLEAN :
        IF ok
        THEN loaded' = loaded \cup {"model", "scaler"} /\ Goto("read")
        ELSE Fatal(stderrTarget, LoadFailedMsg) /\ UNCHANGED loaded
    /\ UNCHANGED <<prog, argc, stdout, stderrTarget, marineData, rogueData>>

MarineRead ==
    /\ prog = "marine" /\ pc = "read"
    /\ Enter
    /\ \E c \in CsvFiles :
        /\ csv' = c
        /\ IF ~c.readable
           THEN /\ Fatal(stderrTarget, ReadFailedMsg)
                /\ UNCHANGED <<df, last24, loaded>>
           ELSE /\ df' = DropNa(c)
                /\ IF TooFewRows(df')
                   THEN /\ Fatal(stderrTarget, TooFewRowsMsg)
                        /\ UNCHANGED <<last24, loaded>>
                   ELSE IF ~c.hasFeatures
                   THEN /\ Fatal(stderrTarget, ReadFailedMsg)
                        /\ UNCHANGED <<last24, loaded>>
                   ELSE /\ last24' = Last24(df')
                        /\ loaded' = loaded \cup {"csv"}
                        /\ Goto("predict")
    /\ UNCHANGED <<prog, argc, stdout, stderrTarget, wvht_pred, wspd_pred,
                   dpd_pred, wvht_ft, wspd_kt, wave_alert, wind_alert,
                   advice, rogueData>>

MarinePredict ==
    /\ prog = "marine" /\ pc = "predict"
    /\ Enter
    /\ \/ /\ Fatal(stderrTarget, PredictionFailedMsg)
          /\ UNCHANGED <<wvht_pred, wspd_pred, dpd_pred>>
       \/ \E h \in Heights, s \in Speeds, p \in Periods :
            /\ wvht_pred' = h
            /\ wspd_pred' = s
            /\ dpd_pred' = p
            /\ Goto("time")
    /\ UNCHANGED <<prog, argc, loaded, stdout, stderrTarget, csv, df, last24,
                   wvht_ft, wspd_kt, wave_alert, wind_alert, advice,
                   rogueData>>

MarineTime ==
    /\ prog = "marine" /\ pc = "time"
    /\ Enter
    /\ \E valid \in BOOLEAN :
        IF valid
        THEN Goto("classify")
        ELSE Fatal(stderrTarget, TimeFailedMsg)
    /\ UNCHANGED <<prog, argc, loaded, stdout, stderrTarget, marineData,
                   rogueData>>

MarineClassify ==
    /\ prog = "marine" /\ pc = "classify"
    /\ Enter
    /\ wspd_kt' = ToKnots(wspd_pred)
    /\ wvht_ft' = ToFeet(wvht_pred)
    /\ wave_alert' = WaveAlert(wvht_ft', dpd_pred)
    /\ wind_alert' = WindAlert(wspd_kt')
    /\ advice' = Advice(wave_alert', wind_alert')
    /\ \E stationOk \in BOOLEAN :
        IF stationOk
        THEN /\ stdout' = stdout \o <<MarineHeader, MarineDataLine>>
             /\ exitCode' = 0
             /\ pc' = "done"
             /\ UNCHANGED <<failedAt, errChannel, nullSink>>
        ELSE /\ Fatal(stderrTarget, Traceback)
             /\ UNCHANGED stdout
    /\ UNCHANGED <<prog, argc, loaded, stderrTarget, csv, df, last24,
                   wvht_pred, wspd_pred, dpd_pred, rogueData>>

(***************************************************************************)
(* rouge_wave_model/predict.py                                             *)
(*                                                                         *)
(* A trace of `size` samples alternates between the values lo and hi.  An  *)
(* NPZ container is the sequence of its (key, array) entries in file       *)
(* order.  A float quotient is kept as the pair of its operands: a zero    *)
(* divisor gives NaN for 0/0 and an infinity otherwise, as numpy does.     *)
(***************************************************************************)
NoTrace == [size |-> 0, lo |-> 0, hi |-> 0]

Traces ==
    {[size |-> n, lo |-> l, hi |-> h] :
        n \in {TraceLen - 2, TraceLen}, l \in 0..MaxSample, h \in 0..MaxSample}

Keys == {"zdisp", "zdisp_norw", "eta"}

Entries == [key : Keys, arr : {t \in Traces : t.lo <= t.hi}]

NpzFiles ==
    {f \in UNION {[1..k -> Entries] : k \in 0..MaxEntries} :
        \A i, j \in 1..Len(f) : f[i].key = f[j].key => i = j}

HasKey(f, k) == \E i \in 1..Len(f) : f[i].key = k

Lookup(f, k) == f[CHOOSE i \in 1..Len(f) : f[i].key = k].arr

\* "zdisp" in data / "zdisp_norw" in data / list(data.keys())[0]
SelectTrace(f) ==
    IF HasKey(f, "zdisp") THEN Lookup(f, "zdisp")
    ELSE IF HasKey(f, "zdisp_norw") THEN Lookup(f, "zdisp_norw")
    ELSE f[1].arr

\* 4 * np.std(zdisp): the standard deviation of a trace alternating between
\* lo and hi is (hi - lo) / 2
FourStd(z) == 2 * (z.hi - z.lo)

Quot(v, s) == [num |-> v, den |-> s]
IsFinite(q) == q.den # 0

\* zdisp / significant_wave_height
Normalize(z, s) == [size |-> z.size, lo |-> Quot(z.lo, s), hi |-> Quot(z.hi, s)]

AllFinite(zn) == IsFinite(zn.lo) /\ IsFinite(zn.hi)

NoScores == [nan |-> FALSE, s0 |-> 0, s1 |-> 0]

FiniteScores ==
    [nan : {FALSE}, s0 : (-MaxScore)..MaxScore, s1 : (-MaxScore)..MaxScore]

\* model.predict(zdisp_norm): the network is opaque; a non-finite input may
\* give NaN scores
Predictions(zn) ==
    IF AllFinite(zn) THEN FiniteScores ELSE FiniteScores \cup {[NoScores EXCEPT !.nan = TRUE]}

\* int(np.argmax(softmax(pred), axis=-1)[0]): softmax keeps the order of the
\* scores; argmax returns the first maximal index, and index 0 for NaN
ArgMax(p) == IF p.nan THEN 0 ELSE IF p.s1 > p.s0 THEN 1 ELSE 0

WaveType(idx) == IF idx = 0 THEN "non-rogue wave" ELSE "rogue wave"

\* an exception no handler catches: traceback on sys.stderr, exit status 1
Uncaught == Fatal(stderrTarget, Traceback)

RogueUsage ==
    /\ prog = "rogue" /\ pc = "usage"
    /\ Enter
    /\ IF argc < 2
       THEN /\ stdout' = Append(stdout, RogueUsageMsg)
            /\ failedAt' = pc
            /\ exitCode' = 1
            /\ pc' = "done"
            /\ UNCHANGED <<errChannel, nullSink>>
       ELSE Goto("npz") /\ UNCHANGED stdout
    /\ UNCHANGED <<prog, argc, loaded, stderrTarget, marineData, rogueData>>

RogueLoadNpz ==
    /\ prog = "rogue" /\ pc = "npz"
    /\ Enter
    /\ \/ Uncaught /\ UNCHANGED <<npz, zdisp, loaded>>
       \/ \E f \in NpzFiles :
            /\ npz' = f
            /\ IF Len(f) = 0
               THEN Uncaught /\ UNCHANGED <<zdisp, loaded>>
               ELSE /\ zdisp' = SelectTrace(f)
                    /\ loaded' = loaded \cup {"npz"}
                    /\ Goto("normalize")
    /\ UNCHANGED <<prog, argc, stdout, stderrTarget, marineData,
                   significant_wave_height, zdisp_norm, pred, wave_type_str>>

RogueNormalize ==
    /\ prog = "rogue" /\ pc = "normalize"
    /\ Enter
    /\ significant_wave_height' = FourStd(zdisp)
    /\ zdisp_norm' = Normalize(zdisp, significant_wave_height')
    /\ IF zdisp.size # TraceLen
       THEN Uncaught
       ELSE Goto("loadmodel")
    /\ UNCHANGED <<prog, argc, loaded, stdout, stderrTarget, marineData,
                   npz, zdisp, pred, wave_type_str>>

RogueLoadModel ==
    /\ prog = "rogue" /\ pc = "loadmodel"
    /\ Enter
    /\ \E ok \in BOOLEAN :
        IF ok
        THEN loaded' = loaded \cup {"model"} /\ Goto("predict")
        ELSE Uncaught /\ UNCHANGED loaded
    /\ UNCHANGED <<prog, argc, stdout, stderrTarget, marineData, rogueData>>

RoguePredict ==
    /\ prog = "rogue" /\ pc = "predict"
    /\ Enter
    /\ \E p \in Predictions(zdisp_norm) :
        /\ pred' = p
        /\ wave_type_str' = WaveType(ArgMax(p))
    /\ stdout' = stdout \o <<RogueHeader, RogueDataLine>>
    /\ exitCode' = 0
    /\ pc' = "done"
    /\ UNCHANGED <<prog, argc, loaded, stderrTarget, errChannel, nullSink,
                   failedAt, marineData, npz, zdisp, significant_wave_height,
                   zdisp_norm>>

Init ==
    /\ prog \in {"marine", "rogue"}
    /\ argc \in 1..MaxArgc
    /\ pc = "usage"
    /\ steps = {}
    /\ loaded = {}
    /\ exitCode = -1
    /\ stdout = <<>>
    /\ stderrTarget = "fd2"
    /\ errChannel = <<>>
    /\ nullSink = <<>>
    /\ failedAt = ""
    /\ csv = NoCsv
    /\ df = <<>>
    /\ last24 = <<>>
    /\ wvht_pred = 0 /\ wspd_pred = 0 /\ dpd_pred = 0
    /\ wvht_ft = 0 /\ wspd_kt = 0
    /\ wave_alert = <<>> /\ wind_alert = <<>> /\ advice = ""
    /\ npz = <<>>
    /\ zdisp = NoTrace
    /\ significant_wave_height = 0
    /\ zdisp_norm = Normalize(NoTrace, 1)
    /\ pred = NoScores
    /\ wave_type_str = ""

Next ==
    \/ MarineUsage
    \/ MarineLoad
    \/ MarineRead
    \/ MarinePredict
    \/ MarineTime
    \/ MarineClassify
    \/ RogueUsage
    \/ RogueLoadNpz
    \/ RogueNormalize
    \/ RogueLoadModel
    \/ RoguePredict

Spec == Init /\ [][Next]_vars

(***************************************************************************)
(* Properties.                                                             *)
(***************************************************************************)
Classified == prog = "marine" /\ "classify" \in steps
Finished == pc = "done"
Printed == Classified /\ Finished /\ exitCode = 0

HazardousWaveLabels == {WaveHazard9to11, WaveHazard12to14, WaveHazardGe15}
CautionWaveLabels ==
    {WaveCaution6to8, WaveCaution9to11, WaveCaution12to14, WaveCautionGe15}
NormalWaveLabels ==
    {WaveNormalLt5, WaveNormal6to8, WaveNormal9to11, WaveNormal12to14}
SevereWindLabels == {WindHurricane, WindStorm, WindGale}

InBand(ft, lo, hi) == lo * FtUnit <= ft /\ ft <= hi * FtUnit

\* C1: every (wave height, period) pair gets one of the documented band
\* labels; the "Unknown" fallback is never produced.
C1_NeverUnknown ==
    Printed =>
        /\ wave_alert \in
             HazardousWaveLabels \cup CautionWaveLabels \cup NormalWaveLabels
        /\ wave_alert # WaveUnknown

\* C2: in the 9-11 ft and 12-14 ft bands a "Waves normal" label is given
\* only for a period of at least 13 s; a period <= 9 s (resp. <= 11 s) is
\* hazardous and a period of 10-12 s (resp. 12 s) a small craft caution.
C2_NormalOnlyFrom13s ==
    Printed =>
        /\ InBand(wvht_ft, 9, 11) =>
            /\ dpd_pred <= Sec(9) => wave_alert = WaveHazard9to11
            /\ Sec(10) <= dpd_pred /\ dpd_pred <= Sec(12)
                 => wave_alert = WaveCaution9to11
            /\ wave_alert \in NormalWaveLabels => dpd_pred >= Sec(13)
        /\ InBand(wvht_ft, 12, 14) =>
            /\ dpd_pred <= Sec(11) => wave_alert = WaveHazard12to14
            /\ dpd_pred = Sec(12) => wave_alert = WaveCaution12to14
            /\ wave_alert \in NormalWaveLabels => dpd_pred >= Sec(13)

WindSeverity(label) ==
    CASE label = WindHurricane -> 4
      [] label = WindStorm -> 3
      [] label = WindGale -> 2
      [] label = WindSmallCraft -> 1
      [] label = WindNormal -> 0

\* C3: the wind label follows the ordered thresholds 64, 48, 34 and 22 kt,
\* every speed gets exactly one label, and a higher speed never gets a less
\* severe label.
C3_WindThresholds ==
    Classified =>
        /\ wspd_kt = ToKnots(wspd_pred)
        /\ wspd_kt >= 64 * KtUnit => wind_alert = WindHurricane
        /\ 48 * KtUnit <= wspd_kt /\ wspd_kt < 64 * KtUnit
             => wind_alert = WindStorm
        /\ 34 * KtUnit <= wspd_kt /\ wspd_kt < 48 * KtUnit
             => wind_alert = WindGale
        /\ 22 * KtUnit <= wspd_kt /\ wspd_kt < 34 * KtUnit
             => wind_alert = WindSmallCraft
        /\ wspd_kt < 22 * KtUnit => wind_alert = WindNormal
        /\ \A s \in Speeds :
             s <= wspd_pred =>
                WindSeverity(WindAlert(ToKnots(s))) <= WindSeverity(wind_alert)

C3_StormReached ==
    /\ Classified /\ exitCode = 0
    /\ 48 * KtUnit <= wspd_kt /\ wspd_kt < 64 * KtUnit
    /\ wind_alert = WindStorm

\* C4: the advisory is DANGER exactly when the wave label is hazardous or
\* the wind label is hurricane, storm or gale; otherwise CAUTION exactly when
\* the wave label is a small craft caution or the wind label is the small
\* craft advisory; otherwise SAFE.
C4_AdvisoryPrecedence ==
    Classified =>
        LET danger == wave_alert \in HazardousWaveLabels
                        \/ wind_alert \in SevereWindLabels
            caution == wave_alert \in CautionWaveLabels
                        \/ wind_alert = WindSmallCraft
        IN advice = IF danger THEN AdviceDanger
                    ELSE IF caution THEN AdviceCaution
                    ELSE AdviceSafe

C4_HazardousWaveNormalWind ==
    /\ Classified /\ exitCode = 0
    /\ wave_alert \in HazardousWaveLabels
    /\ wind_alert = WindNormal
    /\ advice = AdviceDanger

\* C5: at termination standard output holds exactly two lines with exit
\* code 0, or no line at all with exit code 1.
C5_TwoLinesOrNothing ==
    Finished =>
        \/ exitCode = 0 /\ Len(stdout) = 2
        \/ exitCode = 1 /\ stdout = <<>>

Remaining(c) == {i \in 1..c.n : i \notin c.missing}

\* C6: once model and scaler are loaded, a CSV with fewer than 24 rows left
\* after dropping incomplete rows ends the run with exit code 1 and no
\* output, before prediction, time parsing and classification; with 24 or
\* more rows left the window is the last 24 of them in file order.
C6_WindowOrFatal ==
    (prog = "marine" /\ "read" \in steps /\ csv.readable) =>
        /\ {"model", "scaler"} \subseteq loaded
        /\ IF Cardinality(Remaining(csv)) < WindowLen
           THEN /\ Finished /\ exitCode = 1 /\ stdout = <<>>
                /\ steps \cap {"predict", "time", "classify"} = {}
           ELSE csv.hasFeatures =>
                /\ Len(last24) = WindowLen
                /\ \A i \in 1..(WindowLen - 1) : last24[i] < last24[i + 1]
                /\ \A i \in 1..WindowLen : last24[i] \in Remaining(csv)
                /\ Cardinality({r \in Remaining(csv) : r >= last24[1]})
                     = WindowLen

C6_ShortAfterDropna ==
    /\ prog = "marine" /\ Finished
    /\ csv.readable /\ csv.n >= WindowLen
    /\ Cardinality(Remaining(csv)) < WindowLen
    /\ failedAt = "read" /\ exitCode = 1

\* C7: an invocation with a number of positional arguments other than one
\* gives the usage message and exit code 1 without loading input or model.
C7_UsageOnWrongArgc ==
    (argc # 2 /\ "usage" \in steps) =>
        /\ Finished /\ exitCode = 1 /\ failedAt = "usage"
        /\ steps = {"usage"} /\ loaded = {}

\* C8: a displacement trace whose scale 4*std is zero ends the rogue-wave
\* run with a non-zero exit and no result line, before model prediction.
C8_ZeroScaleFatal ==
    (prog = "rogue" /\ "normalize" \in steps /\ significant_wave_height = 0) =>
        /\ "predict" \notin steps
        /\ stdout = <<>>
        /\ Finished => exitCode # 0

MarineCategories == {"usage", "load", "read", "predict", "time"}

CategoryDiagnostics(stage) ==
    CASE stage = "usage" -> {MarineUsageMsg}
      [] stage = "load" -> {LoadFailedMsg}
      [] stage = "read" -> {TooFewRowsMsg, ReadFailedMsg}
      [] stage = "predict" -> {PredictionFailedMsg}
      [] stage = "time" -> {TimeFailedMsg}

MarineFatal ==
    prog = "marine" /\ Finished /\ exitCode # 0 /\ failedAt \in MarineCategories

\* C9 (as stated): every fatal failure of the marine predictor delivers its
\* category-specific diagnostic on the error channel and exits with status 1.
C9_DiagnosticOnErrorChannel ==
    MarineFatal =>
        /\ exitCode = 1
        /\ Len(errChannel) = 1
        /\ errChannel[1] \in CategoryDiagnostics(failedAt)

\* C9 (amended): every fatal failure of the marine predictor exits with
\* status 1 after writing its category-specific diagnostic to sys.stderr,
\* which main() has bound to the null device: the message is discarded and
\* nothing is delivered on the error channel.
C9_DiagnosticDiscarded ==
    MarineFatal =>
        /\ exitCode = 1
        /\ stderrTarget = "devnull"
        /\ errChannel = <<>>
        /\ Len(nullSink) = 1
        /\ nullSink[1] \in CategoryDiagnostics(failedAt)

C9_PredictionFailureDiscarded ==
    /\ MarineFatal
    /\ failedAt = "predict"
    /\ nullSink = <<PredictionFailedMsg>>
    /\ errChannel = <<>>

\* C10: with the wave label "Unknown" the advisory is decided by the wind
\* label alone: DANGER for hurricane, storm or gale, CAUTION for the small
\* craft advisory, SAFE for normal wind.
C10_UnknownWaveWindDecides ==
    (Classified /\ wave_alert = WaveUnknown) =>
        /\ wind_alert \in SevereWindLabels => advice = AdviceDanger
        /\ wind_alert = WindSmallCraft => advice = AdviceCaution
        /\ wind_alert = WindNormal => advice = AdviceSafe

C10_UnknownWaveSafe ==
    /\ Classified /\ exitCode = 0
    /\ wave_alert = WaveUnknown
    /\ wind_alert = WindNormal
    /\ advice = AdviceSafe
====
